---------------------------- MODULE Spec2Model ----------------------------
(***************************************************************************)
(* Hostel Financial Manager: the session store of src/12.py (revenue and   *)
(* expense entries, the stored balance sheet, the hostelite dictionary)    *)
(* with the utility functions that mutate and read it, and the report      *)
(* aggregations of src/10.py and src/7.py; the staff records, monthly      *)
(* trends and combined report of src/12.py; the payment table of src/5.py, *)
(* the transactions of src/2.py, the expense table of src/6.py; and the    *)
(* rent forecaster.                                                        *)
(*                                                                         *)
(* Amounts are the two-decimal PKR values of st.number_input, counted in   *)
(* whole units; every sum below adds in the order the code adds.           *)
(***************************************************************************)
EXTENDS Integers, Sequences, FiniteSets, TLC

VARIABLES
    revenue,        \* st.session_state.revenue: list of {Date, Description, Amount}
    expenses,       \* st.session_state.expenses: list of {Date, Category, Description, Amount}
    balance_sheet,  \* st.session_state.balance_sheet: {Assets, Liabilities, Equity}
    hostelites,     \* st.session_state.hostelites: name -> {Room, Rent, Paid}
    staff,          \* st.session_state.staff: name -> {Position, ExpectedPayment}
    staff_payments, \* st.session_state.staff_payments: list of {Date, Staff, Amount, Method}
    hostel_data,    \* src/5.py st.session_state.hostel_data: the rows of the payment table
    transactions,   \* src/2.py st.session_state.transactions: list of transactions
    expense_categories, \* src/2.py st.session_state.expense_categories: category -> running total
    ret,            \* what the last utility call returned to the page
    arg,            \* input of the function or call sequence under study
    out             \* how far it has run, and its result

store == <<revenue, expenses, balance_sheet, hostelites, staff, staff_payments,
          hostel_data, transactions, expense_categories, ret>>
vars == <<revenue, expenses, balance_sheet, hostelites, staff, staff_payments,
         hostel_data, transactions, expense_categories, ret, arg, out>>

---------------------------------------------------------------------------
(* Bounds of the model.                                                    *)

MaxRevenue == 2
MaxExpenses == 1
MaxAmount == 1
MaxRent == 1
MaxStatusRent == 7
MaxStatusPaid == 8
MaxScriptRent == 3
MaxScriptAmount == 3
MaxScriptPayments == 3
MaxGroupLen == 3
MaxGroupAmount == 2
MaxCallRevenue == 2
MaxCallExpenses == 1
MaxCallAmount == 1
MaxCallNegative == 1
MaxStaffPayments == 2
MaxExpected == 1
MaxStaffAmount == 1
MaxReportRevenue == 2
MaxReportExpenses == 1
MaxReportAmount == 1
MaxHistory == 3
MaxHistoryRent == 4
MaxFuture == 2
MaxHostelRows == 2
MaxHostelPaid == 2
MaxTransactions == 2
MaxTransactionAmount == 1
MaxTableRows == 2
MaxRowAmount == 2

Names == {"A", "B"}
Rooms == {101}
Dates == {"2025-01-15"}
Amounts == 0 .. MaxAmount
Rents == 1 .. MaxRent
RevenueDescriptions == {"Donation"}
ExpenseDescriptions == {"bill"}
Methods == {"Cash"}

---------------------------------------------------------------------------
(* Helpers.                                                                *)

Max(a, b) == IF a >= b THEN a ELSE b

\* Python values handed back to the page: None, a bool, or the balance
\* sheet DataFrame with its three Amount rows.
None == [type |-> "NoneType"]

Bool(b) == [type |-> "bool", value |-> b]

DataFrame(bs) ==
    [type |-> "DataFrame",
     Assets |-> bs.Assets, Liabilities |-> bs.Liabilities, Equity |-> bs.Equity]

\* sum([entry["Amount"] for entry in entries]): left to right from 0.
RECURSIVE SumAmount(_)
SumAmount(entries) ==
    IF entries = <<>> THEN 0
    ELSE SumAmount(SubSeq(entries, 1, Len(entries) - 1))
             + entries[Len(entries)].Amount

\* The selectbox options of the expense form.
ExpenseCategories ==
    {"Maid Salary", "Chef Salary", "Outsourcing", "Utilities", "Maintenance", "Other"}

\* The categories the model draws from.
Categories == {"Utilities"}

\* The selectbox options of the transaction form of src/2.py, the keys of
\* expense_categories.
TransactionCategories == {"Project", "Marketing", "Tools", "Other"}

---------------------------------------------------------------------------
(* Session state after the first run of the script.                        *)

InitStore ==
    /\ revenue = <<>>
    /\ expenses = <<>>
    /\ balance_sheet = [Assets |-> 0, Liabilities |-> 0, Equity |-> 0]
    /\ hostelites = <<>>
    /\ staff = <<>>
    /\ staff_payments = <<>>
    /\ hostel_data = <<>>
    /\ transactions = <<>>
    /\ expense_categories = [category \in TransactionCategories |-> 0]
    /\ ret = None

---------------------------------------------------------------------------
(* Utility functions of src/12.py.                                         *)

\* add_revenue assigning a one-entry list instead of appending.
add_revenue_replacing(date, description, amount) ==
    /\ revenue' = <<[Date |-> date, Description |-> description, Amount |-> amount]>>
    /\ ret' = None
    /\ UNCHANGED <<expenses, balance_sheet, hostelites>>

add_revenue(date, description, amount) ==
    /\ revenue' = Append(revenue,
                         [Date |-> date, Description |-> description, Amount |-> amount])
    /\ ret' = None
    /\ UNCHANGED <<expenses, balance_sheet, hostelites>>

add_expense(date, category, description, amount) ==
    /\ expenses' = Append(expenses,
                          [Date |-> date, Category |-> category,
                           Description |-> description, Amount |-> amount])
    /\ ret' = None
    /\ UNCHANGED <<revenue, balance_sheet, hostelites>>

\* st.session_state.hostelites[name] = {...}: a dict store, which replaces
\* the value of a key that is already there.
HostelitesWith(h, name, room_no, rent) ==
    [n \in (DOMAIN h) \cup {name} |->
        IF n = name THEN [Room |-> room_no, Rent |-> rent, Paid |-> 0] ELSE h[n]]

add_hostelite(name, room_no, rent) ==
    /\ hostelites' = HostelitesWith(hostelites, name, room_no, rent)
    /\ ret' = None
    /\ UNCHANGED <<revenue, expenses, balance_sheet>>

\* update_hostelite_payment storing the amount instead of adding it.
UpdateHostelitePaymentAssign(h, hostelite, amount) ==
    IF hostelite \in DOMAIN h
    THEN [h EXCEPT ![hostelite].Paid = amount]
    ELSE h

\* update_hostelite_payment: Paid += amount when the key is there.
UpdateHostelitePayment(h, hostelite, amount) ==
    IF hostelite \in DOMAIN h
    THEN [h EXCEPT ![hostelite].Paid = @ + amount]
    ELSE h

\* f"Rent Payment from {hostelite}"
RentPaymentDescription(hostelite) == "Rent Payment from " \o hostelite

\* add_payment: one revenue entry, then update_hostelite_payment.
AddPayment(date, hostelite, amount, method) ==
    /\ revenue' = Append(revenue,
                         [Date |-> date,
                          Description |-> RentPaymentDescription(hostelite),
                          Amount |-> amount])
    /\ hostelites' = UpdateHostelitePayment(hostelites, hostelite, amount)

\* process_payment without its membership test.
IsRegisteredAlways(h, hostelite) == TRUE

\* The test process_payment makes before it books anything.
IsRegistered(h, hostelite) == hostelite \in DOMAIN h

process_payment(hostelite, amount, payment_date, payment_method) ==
    /\ IF IsRegistered(hostelites, hostelite)
       THEN /\ AddPayment(payment_date, hostelite, amount, payment_method)
            /\ ret' = Bool(TRUE)
       ELSE /\ UNCHANGED <<revenue, hostelites>>
            /\ ret' = Bool(FALSE)
    /\ UNCHANGED <<expenses, balance_sheet>>

\* update_balance_sheet with the subtraction the wrong way round.
UpdateBalanceSheetSwapped(bs, rev, exp) ==
    [bs EXCEPT !.Assets = SumAmount(rev),
               !.Liabilities = SumAmount(exp),
               !.Equity = SumAmount(exp) - SumAmount(rev)]

\* update_balance_sheet adding to the stored values instead of replacing them.
UpdateBalanceSheetAccumulating(bs, rev, exp) ==
    [bs EXCEPT !.Assets = @ + SumAmount(rev),
               !.Liabilities = @ + SumAmount(exp),
               !.Equity = @ + SumAmount(rev) - SumAmount(exp)]

\* update_balance_sheet refreshing Assets and Equity but not Liabilities.
UpdateBalanceSheetAssetsOnly(bs, rev, exp) ==
    [bs EXCEPT !.Assets = SumAmount(rev),
               !.Equity = SumAmount(rev) - SumAmount(exp)]

\* update_balance_sheet with the two totals stored under each other's key.
UpdateBalanceSheetCrossed(bs, rev, exp) ==
    [bs EXCEPT !.Assets = SumAmount(exp),
               !.Liabilities = SumAmount(rev),
               !.Equity = SumAmount(rev) - SumAmount(exp)]

\* update_balance_sheet: the three keys of the stored dict are overwritten.
UpdateBalanceSheet(bs, rev, exp) ==
    [bs EXCEPT !.Assets = SumAmount(rev),
               !.Liabilities = SumAmount(exp),
               !.Equity = SumAmount(rev) - SumAmount(exp)]

\* get_balance_sheet_df: update_balance_sheet(), then the stored values as rows.
get_balance_sheet_df ==
    /\ balance_sheet' = UpdateBalanceSheet(balance_sheet, revenue, expenses)
    /\ ret' = DataFrame(balance_sheet')
    /\ UNCHANGED <<revenue, expenses, hostelites>>

---------------------------------------------------------------------------
(* Derived views of the hostelite dictionary.                              *)

\* due computed as a distance instead of a shortfall.
AmountDueAbs(rent, paid) == IF rent >= paid THEN rent - paid ELSE paid - rent

\* due = max(rent - paid, 0)
AmountDue(rent, paid) == Max(rent - paid, 0)

\* overpaid taken from the amount paid alone.
AmountOverpaidOfPaid(rent, paid) == Max(paid, 0)

\* overpaid = max(paid - rent, 0)
AmountOverpaid(rent, paid) == Max(paid - rent, 0)

\* compute_payment_details: one row per hostelite.
ComputePaymentDetails(h) ==
    [name \in DOMAIN h |->
        [Hostelite |-> name,
         Room |-> h[name].Room,
         RequiredRent |-> h[name].Rent,
         AmountPaid |-> h[name].Paid,
         AmountDue |-> AmountDue(h[name].Rent, h[name].Paid),
         AmountOverpaid |-> AmountOverpaid(h[name].Rent, h[name].Paid)]]

\* Payment Status with the comparison against Rent made strict.
PaymentStatusStrict(rent, paid) ==
    IF paid > rent THEN "Paid"
    ELSE IF paid > 0 THEN "Partial"
    ELSE "Unpaid"

\* Payment Status looking at Paid alone.
PaymentStatusAnyPayment(rent, paid) ==
    IF paid > 0 THEN "Paid" ELSE "Unpaid"

\* "Paid" if Paid >= Rent else "Partial" if Paid > 0 else "Unpaid"
PaymentStatus(rent, paid) ==
    IF paid >= rent THEN "Paid"
    ELSE IF paid > 0 THEN "Partial"
    ELSE "Unpaid"

\* One row of get_hostelite_list.
HosteliteRow(name, details) ==
    [Name |-> name,
     RoomNumber |-> details.Room,
     MonthlyRent |-> details.Rent,
     AmountPaid |-> details.Paid,
     AmountDue |-> Max(details.Rent - details.Paid, 0),
     PaymentStatus |-> PaymentStatus(details.Rent, details.Paid)]

\* get_hostelite_list: one row per hostelite.
GetHosteliteList(h) == [name \in DOMAIN h |-> HosteliteRow(name, h[name])]

---------------------------------------------------------------------------
(* The store under every sequence of calls.                                *)

Init ==
    /\ InitStore
    /\ arg = None
    /\ out = None

AddRevenue ==
    /\ Len(revenue) < MaxRevenue
    /\ \E date \in Dates, description \in RevenueDescriptions, amount \in Amounts :
           add_revenue(date, description, amount)
    /\ UNCHANGED <<staff, staff_payments, hostel_data, transactions, expense_categories,
                 arg, out>>

AddExpense ==
    /\ Len(expenses) < MaxExpenses
    /\ \E date \in Dates, category \in Categories,
          description \in ExpenseDescriptions, amount \in Amounts :
           add_expense(date, category, description, amount)
    /\ UNCHANGED <<staff, staff_payments, hostel_data, transactions, expense_categories,
                 arg, out>>

\* The hostelite form calls add_hostelite only when name, room and rent are
\* all truthy (a rent of 0.0 is refused with "Please fill in all fields").
AddHostelite ==
    /\ \E name \in Names, room_no \in Rooms, rent \in Rents :
           add_hostelite(name, room_no, rent)
    /\ UNCHANGED <<staff, staff_payments, hostel_data, transactions, expense_categories,
                 arg, out>>

ProcessPayment ==
    /\ Len(revenue) < MaxRevenue
    /\ \E hostelite \in Names, amount \in Amounts, date \in Dates, method \in Methods :
           process_payment(hostelite, amount, date, method)
    /\ UNCHANGED <<staff, staff_payments, hostel_data, transactions, expense_categories,
                 arg, out>>

GetBalanceSheetDf ==
    /\ get_balance_sheet_df
    /\ UNCHANGED <<staff, staff_payments, hostel_data, transactions, expense_categories,
                 arg, out>>

Next ==
    \/ AddRevenue
    \/ AddExpense
    \/ AddHostelite
    \/ ProcessPayment
    \/ GetBalanceSheetDf

Spec == Init /\ [][Next]_vars

---------------------------------------------------------------------------
(* Properties of the store.                                                *)

\* The revenue entries that add_payment booked for a hostelite.
RECURSIVE SumTagged(_, _)
SumTagged(entries, description) ==
    IF entries = <<>> THEN 0
    ELSE SumTagged(Tail(entries), description)
             + (IF Head(entries).Description = description
                THEN Head(entries).Amount ELSE 0)

\* C1: the Equity that get_balance_sheet_df reports equals total revenue
\* minus total expenses over the entry lists as they are at the call.
C1_EquityIsRevenueMinusExpenses ==
    ret.type = "DataFrame" =>
        ret.Equity = SumAmount(revenue) - SumAmount(expenses)

C1_Witness ==
    /\ ret.type = "DataFrame"
    /\ SumAmount(revenue) > 0
    /\ SumAmount(expenses) > 0
    /\ SumAmount(revenue) # SumAmount(expenses)

\* C2: for every registered hostelite, in every reachable state, a positive
\* Amount Due comes with Amount Overpaid 0 and a positive Amount Overpaid
\* with Amount Due 0.
C2_DueOverpaidExclusive ==
    \A name \in DOMAIN hostelites :
        LET row == ComputePaymentDetails(hostelites)[name] IN
        /\ row.AmountDue > 0 => row.AmountOverpaid = 0
        /\ row.AmountOverpaid > 0 => row.AmountDue = 0

C2_Witness ==
    \E a, b \in DOMAIN hostelites :
        /\ ComputePaymentDetails(hostelites)[a].AmountOverpaid > 0
        /\ ComputePaymentDetails(hostelites)[b].AmountDue > 0

\* C3: registering a hostelite under a name that is already present leaves
\* the existing record, and its Paid in particular, as it was.
C3_DuplicateRegistrationKeepsRecord ==
    [][\A name \in DOMAIN hostelites :
          (\E room_no \in Rooms, rent \in Rents : add_hostelite(name, room_no, rent))
              => hostelites'[name] = hostelites[name]]_vars

C5_PaidEqualsTaggedRevenue ==
    \A name \in DOMAIN hostelites :
        hostelites[name].Paid = SumTagged(revenue, RentPaymentDescription(name))

\* C8: get_balance_sheet_df called again with no call in between returns
\* the same Assets, Liabilities and Equity, and neither call changes the
\* revenue list, the expense list or the hostelites.
C8_BalanceSheetIdempotent ==
    [][(ret.type = "DataFrame" /\ get_balance_sheet_df)
          => /\ ret' = ret
             /\ balance_sheet' = balance_sheet
             /\ UNCHANGED <<revenue, expenses, hostelites>>]_vars

C8_Witness ==
    /\ ret.type = "DataFrame"
    /\ ret.Assets > 0
    /\ ret.Liabilities > 0
    /\ ret = DataFrame(UpdateBalanceSheet(balance_sheet, revenue, expenses))

\* C10: a registered hostelite's Paid never decreases, and it changes only
\* in a step that records a payment against that hostelite.
C10_PaidMonotone ==
    [][\A name \in DOMAIN hostelites :
          /\ hostelites'[name].Paid >= hostelites[name].Paid
          /\ hostelites'[name].Paid # hostelites[name].Paid
                 => \E amount \in Amounts, date \in Dates, method \in Methods :
                        process_payment(name, amount, date, method)]_vars

---------------------------------------------------------------------------
(* get_hostelite_list applied to one hostelite record.                     *)

InitStatus ==
    /\ InitStore
    /\ arg \in [Room : Rooms, Rent : 0 .. MaxStatusRent, Paid : 0 .. MaxStatusPaid]
    /\ out = [done |-> FALSE]

ListHostelite ==
    /\ ~out.done
    /\ out' = [done |-> TRUE, row |-> GetHosteliteList([name \in {"A"} |-> arg])["A"]]
    /\ UNCHANGED <<store, arg>>

SpecStatus == InitStatus /\ [][ListHostelite]_vars

---------------------------------------------------------------------------
(* One hostelite registered, then a sequence of payments against them.     *)

SeqsUpTo(S, n) == UNION {[1 .. k -> S] : k \in 0 .. n}

RECURSIVE SumSeq(_)
SumSeq(xs) == IF xs = <<>> THEN 0 ELSE Head(xs) + SumSeq(Tail(xs))

InitScript ==
    /\ InitStore
    /\ arg \in [name : {"A"}, room : Rooms, rent : 1 .. MaxScriptRent,
                payments : SeqsUpTo(0 .. MaxScriptAmount, MaxScriptPayments)]
    /\ out = [pc |-> 0]

ScriptRegister ==
    /\ out.pc = 0
    /\ add_hostelite(arg.name, arg.room, arg.rent)
    /\ out' = [pc |-> 1]
    /\ UNCHANGED <<staff, staff_payments, hostel_data, transactions, expense_categories,
                 arg>>

ScriptPay ==
    /\ out.pc >= 1
    /\ out.pc <= Len(arg.payments)
    /\ \E date \in Dates, method \in Methods :
           process_payment(arg.name, arg.payments[out.pc], date, method)
    /\ out' = [pc |-> out.pc + 1]
    /\ UNCHANGED <<staff, staff_payments, hostel_data, transactions, expense_categories,
                 arg>>

NextScript == ScriptRegister \/ ScriptPay

SpecScript == InitScript /\ [][NextScript]_vars

\* The payments of the script made so far, and their sum.
PaymentsMade == SubSeq(arg.payments, 1, out.pc - 1)

\* What the two views report for the hostelite of the script.
ScriptStatus ==
    [due |-> ComputePaymentDetails(hostelites)[arg.name].AmountDue,
     overpaid |-> ComputePaymentDetails(hostelites)[arg.name].AmountOverpaid,
     state |-> GetHosteliteList(hostelites)[arg.name].PaymentStatus]

\* The status after register(R), p1..pn, with `over` the state reported for
\* the payment that follows a total of exactly R.
ScriptStatusIs(over) ==
    out.pc >= 1 =>
        LET R == arg.rent
            total == SumSeq(PaymentsMade)
            n == Len(PaymentsMade)
        IN /\ ScriptStatus.due = Max(R - total, 0)
           /\ ScriptStatus.overpaid = Max(total - R, 0)
           /\ n = 0 => ScriptStatus = [due |-> R, overpaid |-> 0, state |-> "Unpaid"]
           /\ total = R => ScriptStatus = [due |-> 0, overpaid |-> 0, state |-> "Paid"]
           /\ (n >= 1 /\ SumSeq(SubSeq(PaymentsMade, 1, n - 1)) = R /\ PaymentsMade[n] > 0)
                  => ScriptStatus = [due |-> 0, overpaid |-> PaymentsMade[n], state |-> over]

---------------------------------------------------------------------------
(* Expense summary by category (Reports page of src/10.py, dashboard of    *)
(* src/7.py).                                                              *)

\* The expense categories of the expense form of src/10.py, in the order
\* pandas sorts the group keys (ascending string order).
CategoryOrder ==
    <<"Electricity", "Internet", "Laundry", "Maintenance", "Mess", "Other", "Rent", "Water">>

Rank(category) == CHOOSE i \in DOMAIN CategoryOrder : CategoryOrder[i] = category

\* The categories the model draws from.
GroupCategories == {"Mess", "Laundry", "Internet", "Rent"}

\* The index of the first entry of a category.
FirstSeen(entries, category) ==
    CHOOSE i \in DOMAIN entries :
        /\ entries[i].Category = category
        /\ \A j \in 1 .. i - 1 : entries[j].Category # category

\* The keys as a sequence, ascending by position.
RECURSIVE OrderedBy(_, _)
OrderedBy(keys, position) ==
    IF keys = {} THEN <<>>
    ELSE LET first == CHOOSE c \in keys : \A d \in keys : position[c] <= position[d]
         IN <<first>> \o OrderedBy(keys \ {first}, position)

\* The distinct values of the Category column.
CategoriesOf(entries) == {entries[i].Category : i \in DOMAIN entries}

\* The group keys in the order of their first row (groupby(sort=False)).
GroupKeysFirstSeen(entries) ==
    OrderedBy(CategoriesOf(entries),
              [c \in CategoriesOf(entries) |-> FirstSeen(entries, c)])

\* The group keys of groupby("Category"): the distinct categories, sorted.
GroupKeys(entries) ==
    OrderedBy(CategoriesOf(entries), [c \in CategoriesOf(entries) |-> Rank(c)])

\* ["Amount"].sum() of one group: its rows added in input order.
RECURSIVE GroupSum(_, _)
GroupSum(entries, category) ==
    IF entries = <<>> THEN 0
    ELSE GroupSum(SubSeq(entries, 1, Len(entries) - 1), category)
             + (IF entries[Len(entries)].Category = category
                THEN entries[Len(entries)].Amount ELSE 0)

\* df_exp.groupby("Category")["Amount"].sum().reset_index()
GroupByCategory(entries) ==
    LET keys == GroupKeys(entries)
    IN [i \in 1 .. Len(keys) |->
           [Category |-> keys[i], Amount |-> GroupSum(entries, keys[i])]]

InitGroup ==
    /\ InitStore
    /\ arg \in SeqsUpTo([Category : GroupCategories, Amount : 0 .. MaxGroupAmount],
                        MaxGroupLen)
    /\ out = [done |-> FALSE]

\* The summary is computed only when there is at least one expense.
ExpenseSummary ==
    /\ ~out.done
    /\ out' = IF arg = <<>>
              THEN [done |-> TRUE, shown |-> FALSE, exp_summary |-> <<>>]
              ELSE [done |-> TRUE, shown |-> TRUE, exp_summary |-> GroupByCategory(arg)]
    /\ UNCHANGED <<store, arg>>

SpecGroup == InitGroup /\ [][ExpenseSummary]_vars

\* The summary has one row per category that occurs, holding the sum of the
\* amounts of that category.
SummaryHoldsSums ==
    LET t == out.exp_summary
    IN /\ {t[i].Category : i \in DOMAIN t} = {arg[i].Category : i \in DOMAIN arg}
       /\ \A i, j \in DOMAIN t : t[i].Category = t[j].Category => i = j
       /\ \A i \in DOMAIN t :
              t[i].Amount =
                  SumSeq([k \in DOMAIN arg |->
                             IF arg[k].Category = t[i].Category THEN arg[k].Amount ELSE 0])

\* C9 as stated: each category that occurs with the sum of its amounts, the
\* categories in the order of their first occurrence in the input.
C9_FirstSeenOrder ==
    out.done =>
        /\ SummaryHoldsSums
        /\ \A i, j \in DOMAIN out.exp_summary :
               i < j => FirstSeen(arg, out.exp_summary[i].Category)
                            < FirstSeen(arg, out.exp_summary[j].Category)

\* C9 as amended: each category that occurs with the sum of its amounts, the
\* categories in ascending order of their names (Mess, Laundry, Mess gives
\* Laundry then Mess).
C9_SortedOrder ==
    out.done =>
        /\ SummaryHoldsSums
        /\ \A i, j \in DOMAIN out.exp_summary :
               i < j => Rank(out.exp_summary[i].Category)
                            < Rank(out.exp_summary[j].Category)

C9_Witness ==
    /\ out.done
    /\ Len(arg) = 3
    /\ <<arg[1].Category, arg[2].Category, arg[3].Category>> = <<"Mess", "Laundry", "Mess">>
    /\ out.exp_summary =
           <<[Category |-> "Laundry", Amount |-> arg[2].Amount],
             [Category |-> "Mess", Amount |-> arg[1].Amount + arg[3].Amount]>>

---------------------------------------------------------------------------
(* Further properties of the store.                                        *)

IsPrefix(s, t) == Len(s) <= Len(t) /\ SubSeq(t, 1, Len(s)) = s

\* The Amount column of a list of entries.
AmountsOf(entries) == [k \in DOMAIN entries |-> entries[k].Amount]

\* C11: every step leaves the old revenue and expense lists as prefixes of
\* the new ones, and add_revenue, add_expense and a successful
\* process_payment each lengthen exactly one list by exactly one entry.
C11_AppendOnly ==
    [][/\ IsPrefix(revenue, revenue')
       /\ IsPrefix(expenses, expenses')
       /\ (\E date \in Dates, description \in RevenueDescriptions, amount \in Amounts :
               add_revenue(date, description, amount))
              => Len(revenue') = Len(revenue) + 1 /\ expenses' = expenses
       /\ (\E date \in Dates, category \in Categories,
              description \in ExpenseDescriptions, amount \in Amounts :
               add_expense(date, category, description, amount))
              => Len(expenses') = Len(expenses) + 1 /\ revenue' = revenue
       /\ (\E hostelite \in DOMAIN hostelites, amount \in Amounts,
              date \in Dates, method \in Methods :
               process_payment(hostelite, amount, date, method))
              => Len(revenue') = Len(revenue) + 1 /\ expenses' = expenses]_vars

C11_Witness ==
    /\ Len(revenue) = 2
    /\ Len(expenses) = 1
    /\ revenue[1].Description = "Donation"
    /\ revenue[2].Description # "Donation"

\* The balance sheet recomputed from the lists as they are now.
Recomputed ==
    [Assets |-> SumSeq(AmountsOf(revenue)),
     Liabilities |-> SumSeq(AmountsOf(expenses)),
     Equity |-> SumSeq(AmountsOf(revenue)) - SumSeq(AmountsOf(expenses))]

\* C14 as stated: the balance sheet held by the store equals, in every
\* reachable state, the values recomputed from the current lists.
C14_StoredSheetNeverStale == balance_sheet = Recomputed

\* C14 as amended: the store does hold a balance sheet, which is stale
\* between calls, but get_balance_sheet_df recomputes it before reading it:
\* right after every call the stored sheet and the three values reported
\* equal the values recomputed from the current lists.
C14_SheetFreshWhenRead ==
    ret.type = "DataFrame" =>
        /\ balance_sheet = Recomputed
        /\ ret = DataFrame(Recomputed)

C14_Witness ==
    /\ ret.type = "DataFrame"
    /\ balance_sheet = Recomputed
    /\ balance_sheet.Equity < 0
    /\ balance_sheet.Liabilities > 0

\* C15 as stated: for every hostelite exactly one of Amount Due and Amount
\* Overpaid is nonzero.
C15_ExactlyOneNonzero ==
    \A name \in DOMAIN hostelites :
        LET row == ComputePaymentDetails(hostelites)[name] IN
        (row.AmountDue # 0) # (row.AmountOverpaid # 0)

\* C15 as amended: for every hostelite at most one of Amount Due and Amount
\* Overpaid is nonzero, and both are zero exactly when Paid equals Rent.
C15_AtMostOneNonzero ==
    \A name \in DOMAIN hostelites :
        LET row == ComputePaymentDetails(hostelites)[name] IN
        /\ ~(row.AmountDue # 0 /\ row.AmountOverpaid # 0)
        /\ (row.AmountDue = 0 /\ row.AmountOverpaid = 0)
               <=> hostelites[name].Paid = hostelites[name].Rent

C15_Witness ==
    \E name \in DOMAIN hostelites :
        /\ hostelites[name].Paid = hostelites[name].Rent
        /\ hostelites[name].Paid > 0
        /\ ComputePaymentDetails(hostelites)[name].AmountDue = 0
        /\ ComputePaymentDetails(hostelites)[name].AmountOverpaid = 0

\* C16: get_balance_sheet_df reports Assets equal to the sum of all revenue
\* amounts, rent payments included, and Liabilities equal to the sum of all
\* expense amounts; with both lists empty both are 0.
C16_AssetsAndLiabilities ==
    ret.type = "DataFrame" =>
        /\ ret.Assets = SumSeq(AmountsOf(revenue))
        /\ ret.Liabilities = SumSeq(AmountsOf(expenses))
        /\ (revenue = <<>> /\ expenses = <<>>) => (ret.Assets = 0 /\ ret.Liabilities = 0)

C16_Witness ==
    /\ ret.type = "DataFrame"
    /\ Len(revenue) = 2
    /\ revenue[1].Description = "Donation"
    /\ revenue[2].Description = RentPaymentDescription("A")
    /\ ret.Assets = 2
    /\ ret.Liabilities = 1

---------------------------------------------------------------------------
(* add_revenue and add_expense called with any amount, and add_expense     *)
(* with each category of the expense form.                                 *)

CallAmounts == (0 - MaxCallNegative) .. MaxCallAmount

CallAddRevenue ==
    /\ Len(revenue) < MaxCallRevenue
    /\ \E date \in Dates, description \in RevenueDescriptions, amount \in CallAmounts :
           add_revenue(date, description, amount)
    /\ UNCHANGED <<staff, staff_payments, hostel_data, transactions, expense_categories,
                 arg, out>>

CallAddExpense ==
    /\ Len(expenses) < MaxCallExpenses
    /\ \E date \in Dates, category \in ExpenseCategories,
          description \in ExpenseDescriptions, amount \in CallAmounts :
           add_expense(date, category, description, amount)
    /\ UNCHANGED <<staff, staff_payments, hostel_data, transactions, expense_categories,
                 arg, out>>

NextCalls == CallAddRevenue \/ CallAddExpense

SpecCalls == Init /\ [][NextCalls]_vars

\* C12: every stored revenue entry and every stored expense entry has an
\* amount >= 0 (a call with a negative amount appends nothing).
C12_StoredAmountsNonNegative ==
    /\ \A k \in DOMAIN revenue : revenue[k].Amount >= 0
    /\ \A k \in DOMAIN expenses : expenses[k].Amount >= 0

RecognisedCategories ==
    {"Rent", "Laundry", "Internet", "Mess", "Maintenance", "Utilities", "Salary", "Other"}

\* C13: every stored expense has a category from Rent, Laundry, Internet,
\* Mess, Maintenance, Utilities, Salary, Other (a call with any other
\* category leaves the expense list unchanged).
C13_StoredCategoriesRecognised ==
    \A k \in DOMAIN expenses : expenses[k].Category \in RecognisedCategories

---------------------------------------------------------------------------
(* Staff and staff payments.                                               *)

StaffNames == {"S", "T"}
Positions == {"Chef"}

\* add_staff leaving an entry that is already there as it is.
add_staff_keeping(name, position, expected_payment) ==
    /\ staff' = [n \in DOMAIN staff \cup {name} |->
                    IF n \in DOMAIN staff
                    THEN staff[n]
                    ELSE [Position |-> position, ExpectedPayment |-> expected_payment]]
    /\ UNCHANGED staff_payments

\* add_staff also dropping the payment records of the name.
add_staff_clearing(name, position, expected_payment) ==
    /\ staff' = [n \in DOMAIN staff \cup {name} |->
                    IF n = name
                    THEN [Position |-> position, ExpectedPayment |-> expected_payment]
                    ELSE staff[n]]
    /\ staff_payments' = SelectSeq(staff_payments, LAMBDA payment : payment.Staff # name)

\* add_staff: the entry under the name is stored or replaced.
add_staff(name, position, expected_payment) ==
    /\ staff' = [n \in DOMAIN staff \cup {name} |->
                    IF n = name
                    THEN [Position |-> position, ExpectedPayment |-> expected_payment]
                    ELSE staff[n]]
    /\ UNCHANGED staff_payments

\* add_staff_payment: one record is appended.
add_staff_payment(date, name, amount, method) ==
    /\ staff_payments' = Append(staff_payments,
                                [Date |-> date, Staff |-> name,
                                 Amount |-> amount, Method |-> method])
    /\ UNCHANGED staff

\* The Paid total with every payment added to every staff member.
StaffPaidOfAll(name, payments) == SumSeq(AmountsOf(payments))

RECURSIVE StaffPaid(_, _)
\* The loop over staff_payments, seen from one name of staff_data: Paid
\* starts at 0 and grows by each payment whose Staff is that name.
StaffPaid(name, payments) ==
    IF payments = <<>> THEN 0
    ELSE LET front == SubSeq(payments, 1, Len(payments) - 1)
             payment == payments[Len(payments)]
         IN IF payment.Staff = name
            THEN StaffPaid(name, front) + payment.Amount
            ELSE StaffPaid(name, front)

\* compute_staff_payments: one row per staff member.
ComputeStaffPayments(st, payments) ==
    [name \in DOMAIN st |->
        LET expected == st[name].ExpectedPayment
            paid == StaffPaid(name, payments)
        IN [Staff |-> name,
            ExpectedPayment |-> expected,
            AmountPaid |-> paid,
            AmountDue |-> Max(expected - paid, 0),
            AmountOverpaid |-> Max(paid - expected, 0)]]

AddStaff ==
    /\ \E name \in StaffNames, position \in Positions, expected_payment \in 0 .. MaxExpected :
           add_staff(name, position, expected_payment)
    /\ UNCHANGED <<revenue, expenses, balance_sheet, hostelites,
                 hostel_data, transactions, expense_categories, ret, arg, out>>

\* The staff payment also booked as an expense entry.
AddStaffPaymentAsExpense ==
    /\ Len(staff_payments) < MaxStaffPayments
    /\ \E date \in Dates, name \in StaffNames, amount \in 0 .. MaxStaffAmount,
          method \in Methods :
           /\ add_staff_payment(date, name, amount, method)
           /\ expenses' = Append(expenses, [Date |-> date, Category |-> "Other",
                                            Description |-> name, Amount |-> amount])
    /\ UNCHANGED <<revenue, balance_sheet, hostelites,
                 hostel_data, transactions, expense_categories, ret, arg, out>>

AddStaffPayment ==
    /\ Len(staff_payments) < MaxStaffPayments
    /\ \E date \in Dates, name \in StaffNames, amount \in 0 .. MaxStaffAmount,
          method \in Methods :
           add_staff_payment(date, name, amount, method)
    /\ UNCHANGED <<revenue, expenses, balance_sheet, hostelites,
                 hostel_data, transactions, expense_categories, ret, arg, out>>

\* The Staff Payment Details table of the page.
StaffPaymentDetails ==
    /\ out' = [type |-> "DataFrame", rows |-> ComputeStaffPayments(staff, staff_payments)]
    /\ UNCHANGED <<store, arg>>

NextStaff == AddStaff \/ AddStaffPayment \/ StaffPaymentDetails

SpecStaff == Init /\ [][NextStaff]_vars

\* The amounts of the payments recorded against one name.
PaymentsAgainst(name) ==
    AmountsOf(SelectSeq(staff_payments, LAMBDA payment : payment.Staff = name))

\* C19: for every registered staff member compute_staff_payments reports
\* due = max(expected - paid, 0) and overpaid = max(paid - expected, 0),
\* paid being the sum of all payments recorded against that member, and due
\* and overpaid are never both nonzero.
C19_StaffDueOverpaid ==
    LET rows == ComputeStaffPayments(staff, staff_payments) IN
    /\ DOMAIN rows = DOMAIN staff
    /\ \A name \in DOMAIN staff :
           LET expected == staff[name].ExpectedPayment
               paid == SumSeq(PaymentsAgainst(name))
           IN /\ rows[name].AmountPaid = paid
              /\ rows[name].AmountDue = (IF expected > paid THEN expected - paid ELSE 0)
              /\ rows[name].AmountOverpaid = (IF paid > expected THEN paid - expected ELSE 0)
              /\ ~(rows[name].AmountDue # 0 /\ rows[name].AmountOverpaid # 0)

C19_Witness ==
    /\ out.type = "DataFrame"
    /\ DOMAIN staff = StaffNames
    /\ out.rows = ComputeStaffPayments(staff, staff_payments)
    /\ out.rows["S"].AmountOverpaid = 1
    /\ out.rows["T"].AmountDue = 1

\* C20: add_staff_payment against a name that is not a registered staff
\* member records nothing.
C20_UnknownStaffRecordsNothing ==
    [][\A name \in StaffNames \ DOMAIN staff :
          (\E date \in Dates, amount \in 0 .. MaxStaffAmount, method \in Methods :
              add_staff_payment(date, name, amount, method))
             => UNCHANGED staff_payments]_vars

---------------------------------------------------------------------------
(* The monthly trends of the Dashboard and the combined report of the      *)
(* Reports page, over any revenue and expense lists.                       *)

\* The datetime.date values the lists are drawn with.
ReportDates ==
    {[year |-> 2024, month |-> 3, day |-> 15],
     [year |-> 2025, month |-> 3, day |-> 20],
     [year |-> 2025, month |-> 7, day |-> 1]}

MonthAbbr ==
    <<"Jan", "Feb", "Mar", "Apr", "May", "Jun", "Jul", "Aug", "Sep", "Oct", "Nov", "Dec">>

\* pd.to_datetime(date).strftime('%b')
StrftimeB(date) == MonthAbbr[date.month]

TrendLabels == <<"Jan", "Feb", "Mar", "Apr", "May", "Jun">>

\* The Amount of the last row of one Month instead of the sum of the group.
MonthSumLast(entries, month) ==
    LET rows == SelectSeq(entries, LAMBDA e : StrftimeB(e.Date) = month)
    IN rows[Len(rows)].Amount

RECURSIVE MonthSum(_, _)
\* ['Amount'].sum() of the group of one Month.
MonthSum(entries, month) ==
    IF entries = <<>> THEN 0
    ELSE LET front == SubSeq(entries, 1, Len(entries) - 1)
             e == entries[Len(entries)]
         IN IF StrftimeB(e.Date) = month
            THEN MonthSum(front, month) + e.Amount
            ELSE MonthSum(front, month)

\* groupby('Month')['Amount'].sum(): a series indexed by the months present.
GroupByMonth(entries) ==
    [month \in {StrftimeB(entries[k].Date) : k \in DOMAIN entries} |->
        MonthSum(entries, month)]

\* reindex filling the missing labels with 1.
ReindexFillingOne(series, labels, fill_value) ==
    [i \in DOMAIN labels |->
        IF labels[i] \in DOMAIN series THEN series[labels[i]] ELSE 1]

\* Series.reindex(labels, fill_value=...), as the values in label order.
Reindex(series, labels, fill_value) ==
    [i \in DOMAIN labels |->
        IF labels[i] \in DOMAIN series THEN series[labels[i]] ELSE fill_value]

\* monthly_rev / monthly_exp of compute_monthly_trends.
MonthlySeries(entries) ==
    IF entries # <<>>
    THEN Reindex(GroupByMonth(entries), TrendLabels, 0)
    ELSE <<0, 0, 0, 0, 0, 0>>

compute_monthly_trends(rev, exp) ==
    [Month |-> TrendLabels,
     Revenue |-> MonthlySeries(rev),
     Expenses |-> MonthlySeries(exp)]

NaN == "NaN"

\* A revenue row of the concatenation: the Category column exists only when
\* the expense frame brings it.
RevenueRow(e, exp) ==
    IF exp = <<>>
    THEN [Date |-> e.Date, Description |-> e.Description, Amount |-> e.Amount,
          Type |-> "Revenue"]
    ELSE [Date |-> e.Date, Description |-> e.Description, Amount |-> e.Amount,
          Type |-> "Revenue", Category |-> NaN]

ExpenseRow(e) ==
    [Date |-> e.Date, Category |-> e.Category, Description |-> e.Description,
     Amount |-> e.Amount, Type |-> "Expense"]

\* The concatenation with the expense frame put first.
CombinedDfExpensesFirst(rev, exp) ==
    [k \in DOMAIN exp |-> ExpenseRow(exp[k])]
        \o [k \in DOMAIN rev |-> RevenueRow(rev[k], exp)]

\* pd.concat([df_rev.assign(Type="Revenue"), df_exp.assign(Type="Expense")],
\*           ignore_index=True)
CombinedDf(rev, exp) ==
    [k \in DOMAIN rev |-> RevenueRow(rev[k], exp)]
        \o [k \in DOMAIN exp |-> ExpenseRow(exp[k])]

NoTrends == [Month |-> <<>>, Revenue |-> <<>>, Expenses |-> <<>>]

InitReports ==
    /\ revenue \in SeqsUpTo([Date : ReportDates, Description : RevenueDescriptions,
                              Amount : 0 .. MaxReportAmount], MaxReportRevenue)
    /\ expenses \in SeqsUpTo([Date : ReportDates, Category : Categories,
                               Description : ExpenseDescriptions,
                               Amount : 0 .. MaxReportAmount], MaxReportExpenses)
    /\ balance_sheet = [Assets |-> 0, Liabilities |-> 0, Equity |-> 0]
    /\ hostelites = <<>>
    /\ staff = <<>>
    /\ staff_payments = <<>>
    /\ hostel_data = <<>>
    /\ transactions = <<>>
    /\ expense_categories = [category \in TransactionCategories |-> 0]
    /\ ret = None
    /\ arg = None
    /\ out = [dashboard |-> FALSE, total_rev |-> 0, total_exp |-> 0,
              trends_df |-> NoTrends,
              reports |-> FALSE, combined_shown |-> FALSE, combined_df |-> <<>>]

\* The Dashboard page computes the totals and the trends.
Dashboard ==
    /\ ~out.dashboard
    /\ out' = [out EXCEPT !.dashboard = TRUE,
                          !.total_rev = SumAmount(revenue),
                          !.total_exp = SumAmount(expenses),
                          !.trends_df = compute_monthly_trends(revenue, expenses)]
    /\ UNCHANGED <<store, arg>>

\* The Reports page builds the combined frame unless both frames are empty.
Reports ==
    /\ ~out.reports
    /\ out' = IF revenue # <<>> \/ expenses # <<>>
              THEN [out EXCEPT !.reports = TRUE, !.combined_shown = TRUE,
                               !.combined_df = CombinedDf(revenue, expenses)]
              ELSE [out EXCEPT !.reports = TRUE]
    /\ UNCHANGED <<store, arg>>

NextReports == Dashboard \/ Reports

SpecReports == InitReports /\ [][NextReports]_vars

\* The amounts of the entries dated in calendar month m of any year.
AmountsInMonth(entries, m) ==
    AmountsOf(SelectSeq(entries, LAMBDA e : e.Date.month = m))

\* C17: compute_monthly_trends returns exactly six values for the labels
\* Jan..Jun in that order, each the sum of the amounts of the entries dated
\* in that calendar month of any year, 0 where no entry matches and when
\* the list is empty.
C17_MonthlyTrends ==
    out.dashboard =>
        /\ out.trends_df.Month = <<"Jan", "Feb", "Mar", "Apr", "May", "Jun">>
        /\ Len(out.trends_df.Revenue) = 6
        /\ Len(out.trends_df.Expenses) = 6
        /\ \A m \in 1 .. 6 :
               /\ out.trends_df.Revenue[m] = SumSeq(AmountsInMonth(revenue, m))
               /\ out.trends_df.Expenses[m] = SumSeq(AmountsInMonth(expenses, m))
        /\ revenue = <<>> => out.trends_df.Revenue = <<0, 0, 0, 0, 0, 0>>

C17_Witness ==
    /\ out.dashboard
    /\ Len(revenue) = 2
    /\ revenue[1].Date.year # revenue[2].Date.year
    /\ out.trends_df.Revenue = <<0, 0, 2, 0, 0, 0>>
    /\ Len(expenses) = 1
    /\ expenses[1].Date.month = 7
    /\ expenses[1].Amount = 1
    /\ out.trends_df.Expenses = <<0, 0, 0, 0, 0, 0>>

\* C18: the combined report has one row per revenue entry and one per
\* expense entry, tagged Revenue or Expense by origin, the revenue rows
\* first and the expense rows after them, each group in insertion order;
\* its length is len(revenue) + len(expenses).
C18_CombinedReport ==
    out.reports =>
        LET df == out.combined_df IN
        /\ out.combined_shown <=> (revenue # <<>> \/ expenses # <<>>)
        /\ Len(df) = Len(revenue) + Len(expenses)
        /\ \A k \in DOMAIN revenue :
               /\ df[k].Type = "Revenue"
               /\ df[k].Date = revenue[k].Date
               /\ df[k].Description = revenue[k].Description
               /\ df[k].Amount = revenue[k].Amount
        /\ \A k \in DOMAIN expenses :
               /\ df[Len(revenue) + k].Type = "Expense"
               /\ df[Len(revenue) + k].Date = expenses[k].Date
               /\ df[Len(revenue) + k].Category = expenses[k].Category
               /\ df[Len(revenue) + k].Description = expenses[k].Description
               /\ df[Len(revenue) + k].Amount = expenses[k].Amount

C18_Witness ==
    /\ out.reports
    /\ out.combined_shown
    /\ Len(revenue) = 2
    /\ revenue[1] # revenue[2]
    /\ Len(expenses) = 1
    /\ Len(out.combined_df) = 3
    /\ out.combined_df[3].Type = "Expense"

---------------------------------------------------------------------------
(* Registering a staff member again, and staff payments next to the        *)
(* ledger.                                                                 *)

\* Some call of add_staff for this name.
AddStaffCalled(name) ==
    \E position \in Positions, expected_payment \in 0 .. MaxExpected :
        add_staff(name, position, expected_payment)

C26_UpdateKeepsAmountPaid ==
    [][\A name \in DOMAIN staff :
          AddStaffCalled(name)
             => \A n \in DOMAIN staff :
                   ComputeStaffPayments(staff', staff_payments')[n].AmountPaid
                      = ComputeStaffPayments(staff, staff_payments)[n].AmountPaid]_vars

C26_Witness ==
    /\ out.type = "DataFrame"
    /\ "T" \in DOMAIN out.rows
    /\ out.rows["T"].AmountPaid = 2
    /\ out.rows["T"].ExpectedPayment = 1
    /\ "T" \in DOMAIN staff
    /\ staff["T"].ExpectedPayment = 0
    /\ ComputeStaffPayments(staff, staff_payments)["T"].AmountPaid = 2

NextLedger == AddRevenue \/ AddExpense \/ AddStaffPayment

SpecLedger == Init /\ [][NextLedger]_vars

\* C25: add_staff_payment appends one record to staff_payments and leaves
\* the revenue list, the expense list and the hostelite records unchanged,
\* so the totals update_balance_sheet computes are the same before and after.
C25_StaffPaymentLeavesLedger ==
    [][staff_payments' # staff_payments
          => /\ Len(staff_payments') = Len(staff_payments) + 1
             /\ IsPrefix(staff_payments, staff_payments')
             /\ revenue' = revenue
             /\ expenses' = expenses
             /\ hostelites' = hostelites
             /\ UpdateBalanceSheet(balance_sheet', revenue', expenses')
                   = UpdateBalanceSheet(balance_sheet, revenue, expenses)]_vars

C25_Witness ==
    /\ Len(staff_payments) = 2
    /\ staff_payments[2].Amount = 1
    /\ Len(revenue) = 1
    /\ revenue[1].Amount = 1
    /\ Len(expenses) = 1
    /\ UpdateBalanceSheet(balance_sheet, revenue, expenses).Equity = 0

---------------------------------------------------------------------------
(* Further properties of get_hostelite_list and of the monthly trends.     *)

\* C24: in get_hostelite_list the Payment Status is "Paid" exactly when the
\* reported Amount Due is 0, "Unpaid" exactly when paid == 0 and rent > 0,
\* and "Partial" otherwise; no row is Paid with a positive Amount Due.
C24_StatusAgreesWithDue ==
    out.done =>
        LET status == out.row.PaymentStatus
            due == out.row.AmountDue
            unpaid == arg.Paid = 0 /\ arg.Rent > 0
        IN /\ status = "Paid" <=> due = 0
           /\ status = "Unpaid" <=> unpaid
           /\ status = "Partial" <=> (due # 0 /\ ~unpaid)
           /\ ~(status = "Paid" /\ due > 0)

C24_Witness ==
    /\ out.done
    /\ arg.Rent = 0
    /\ arg.Paid = 0
    /\ out.row.PaymentStatus = "Paid"
    /\ out.row.AmountDue = 0

\* The amounts of the entries dated July through December.
AmountsAfterJune(entries) ==
    AmountsOf(SelectSeq(entries, LAMBDA e : e.Date.month > 6))

AllUpToJune(entries) == \A k \in DOMAIN entries : entries[k].Date.month <= 6

\* C30 as stated: the six monthly values never sum to more than the
\* dashboard total, and the sum equals the total exactly when every entry is
\* dated in January through June; the same for expenses.
C30_SumEqualsTotalIffAllUpToJune ==
    out.dashboard =>
        /\ SumSeq(out.trends_df.Revenue) <= out.total_rev
        /\ SumSeq(out.trends_df.Revenue) = out.total_rev <=> AllUpToJune(revenue)
        /\ SumSeq(out.trends_df.Expenses) <= out.total_exp
        /\ SumSeq(out.trends_df.Expenses) = out.total_exp <=> AllUpToJune(expenses)

\* C30 as amended: for non-negative amounts the six monthly values sum to
\* the dashboard total less the amounts of the entries dated July through
\* December, which contribute to no label; so the sum never exceeds the
\* total, equals it when every entry is dated January through June, and
\* also when the entries dated later all have amount 0. The same for
\* expenses.
C30_SumIsTotalLessAfterJune ==
    out.dashboard =>
        /\ SumSeq(out.trends_df.Revenue)
              = out.total_rev - SumSeq(AmountsAfterJune(revenue))
        /\ SumSeq(out.trends_df.Revenue) <= out.total_rev
        /\ AllUpToJune(revenue) => SumSeq(out.trends_df.Revenue) = out.total_rev
        /\ SumSeq(out.trends_df.Expenses)
              = out.total_exp - SumSeq(AmountsAfterJune(expenses))
        /\ SumSeq(out.trends_df.Expenses) <= out.total_exp
        /\ AllUpToJune(expenses) => SumSeq(out.trends_df.Expenses) = out.total_exp

C30_Witness ==
    /\ out.dashboard
    /\ Len(revenue) = 2
    /\ revenue[1].Date.month = 3
    /\ revenue[1].Amount = 1
    /\ revenue[2].Date.month = 7
    /\ revenue[2].Amount = 1
    /\ out.total_rev = 2
    /\ SumSeq(out.trends_df.Revenue) = 1

---------------------------------------------------------------------------
(* The rent forecaster: ordinary least squares over (month, rent) points,  *)
(* in exact rational arithmetic, a rational being [num, den].              *)

\* The history of months 1..n with the given rents.
HistoryOf(rents) == [i \in DOMAIN rents |-> [month |-> i, rent |-> rents[i]]]

NoModel == [slope |-> [num |-> 0, den |-> 0], intercept |-> [num |-> 0, den |-> 0]]

\* The closed-form coefficients, whatever the number of points.
Coefficients(history) ==
    LET n == Len(history)
        sx == SumSeq([i \in DOMAIN history |-> history[i].month])
        sy == SumSeq([i \in DOMAIN history |-> history[i].rent])
        sxy == SumSeq([i \in DOMAIN history |-> history[i].month * history[i].rent])
        sxx == SumSeq([i \in DOMAIN history |-> history[i].month * history[i].month])
        covariance == n * sxy - sx * sy
        variance == n * sxx - sx * sx
    IN [slope |-> [num |-> covariance, den |-> variance],
        intercept |-> [num |-> sy * variance - covariance * sx, den |-> n * variance]]

\* The fit with the check of the number of points left out.
FitAnyLength(history) ==
    [error |-> "none", model |-> Coefficients(history)]

\* The fit forced through the origin.
FitThroughOrigin(history) ==
    IF Len(history) < 2
    THEN [error |-> "InsufficientData", model |-> NoModel]
    ELSE [error |-> "none",
          model |-> [slope |-> [num |-> SumSeq([i \in DOMAIN history |->
                                                  history[i].month * history[i].rent]),
                                den |-> SumSeq([i \in DOMAIN history |->
                                                  history[i].month * history[i].month])],
                     intercept |-> [num |-> 0, den |-> 1]]]

\* Fit: slope = covariance(month, rent) / variance(month), intercept =
\* mean(rent) - slope * mean(month); fewer than 2 points is InsufficientData.
Fit(history) ==
    IF Len(history) < 2
    THEN [error |-> "InsufficientData", model |-> NoModel]
    ELSE [error |-> "none", model |-> Coefficients(history)]

\* Predict: slope * month + intercept for each month, in input order.
Predict(model, future) ==
    [k \in DOMAIN future |->
        [num |-> model.slope.num * model.intercept.den * future[k]
                    + model.intercept.num * model.slope.den,
         den |-> model.slope.den * model.intercept.den]]

FutureMonths == (MaxHistory + 1) .. (MaxHistory + MaxFuture)

InitForecast ==
    /\ InitStore
    /\ arg \in [history : {HistoryOf(rents) : rents \in SeqsUpTo(0 .. MaxHistoryRent, MaxHistory)},
                future : SeqsUpTo(FutureMonths, MaxFuture)]
    /\ out = [done |-> FALSE]

Forecast ==
    /\ ~out.done
    /\ LET fit == Fit(arg.history) IN
       out' = IF fit.error = "InsufficientData"
              THEN [done |-> TRUE, error |-> fit.error, model |-> fit.model,
                    predictions |-> <<>>]
              ELSE [done |-> TRUE, error |-> fit.error, model |-> fit.model,
                    predictions |-> Predict(fit.model, arg.future)]
    /\ UNCHANGED <<store, arg>>

SpecForecast == InitForecast /\ [][Forecast]_vars

\* The history lies exactly on the line rent = a * month + b.
OnLine(history, a, b) ==
    \A i \in DOMAIN history : history[i].rent = a * history[i].month + b

LineSlopes == (0 - MaxHistoryRent) .. MaxHistoryRent
LineIntercepts == (0 - MaxHistoryRent * (MaxHistory + 1)) .. (MaxHistoryRent * (MaxHistory + 1))

\* C22: fitting on two or more points that lie exactly on an integer line
\* rent = a * month + b and predicting at future months returns exactly
\* a * month + b for each, in input order.
C22_ForecastOnLineIsExact ==
    (out.done /\ Len(arg.history) >= 2) =>
        \A a \in LineSlopes, b \in LineIntercepts :
            OnLine(arg.history, a, b) =>
                /\ out.error = "none"
                /\ Len(out.predictions) = Len(arg.future)
                /\ \A k \in DOMAIN arg.future :
                       /\ out.predictions[k].den # 0
                       /\ out.predictions[k].num
                             = (a * arg.future[k] + b) * out.predictions[k].den

C22_Witness ==
    /\ out.done
    /\ arg.history = HistoryOf(<<0, 2, 4>>)
    /\ arg.future = <<MaxHistory + 2, MaxHistory + 1>>
    /\ Len(out.predictions) = 2
    /\ out.predictions[1].den # 0
    /\ out.predictions[1].num = (2 * (MaxHistory + 2) - 2) * out.predictions[1].den
    /\ out.predictions[2].num = (2 * (MaxHistory + 1) - 2) * out.predictions[2].den

\* C23: fitting on fewer than 2 history points fails with InsufficientData
\* and produces no coefficients and no predictions.
C23_TooFewPointsFail ==
    (out.done /\ Len(arg.history) < 2) =>
        /\ out.error = "InsufficientData"
        /\ out.model = NoModel
        /\ out.predictions = <<>>

C23_Witness ==
    /\ out.done
    /\ Len(arg.history) = 1
    /\ arg.history[1].rent = 4
    /\ Len(arg.future) = 2
    /\ out.error = "InsufficientData"
    /\ out.predictions = <<>>

---------------------------------------------------------------------------
(* The hostel payment table of src/5.py.                                   *)

\* The values the number inputs of the form are drawn from.
LaundryFees == {0, 1}
InternetFees == {1}
MessFees == {0, 3}
OtherFees == {0}
PaidInputs == {0, 1}
PaymentInputs == {0, 1}

Success == [type |-> "success"]
IndexError == [type |-> "IndexError"]

\* Add Hostelite: one row is appended, Total Due and Balance computed.
add_hostelite_row(date, name, laundry, internet, mess, other, description, paid) ==
    LET total_due == laundry + internet + mess + other
        balance == paid - total_due
    IN /\ hostel_data' = Append(hostel_data,
                                [Date |-> date, Name |-> name, Laundry |-> laundry,
                                 Internet |-> internet, Mess |-> mess,
                                 OtherExpenses |-> other,
                                 ExpenseDescription |-> description,
                                 TotalDue |-> total_due, Paid |-> paid,
                                 Balance |-> balance])
       /\ out' = Success

\* The index of the first row with the name: [...].index[0]
FirstIndex(name) ==
    CHOOSE i \in DOMAIN hostel_data :
        /\ hostel_data[i].Name = name
        /\ \A j \in 1 .. i - 1 : hostel_data[j].Name # name

\* Update Payment applied to every row of the name.
update_payment_all_rows(selected_name, new_payment) ==
    /\ hostel_data' =
          [i \in DOMAIN hostel_data |->
              IF hostel_data[i].Name = selected_name
              THEN [hostel_data[i] EXCEPT
                       !.Paid = @ + new_payment,
                       !.Balance = hostel_data[i].Paid + new_payment
                                      - hostel_data[i].TotalDue]
              ELSE hostel_data[i]]
    /\ out' = Success

\* Update Payment: Paid of the first row of the name grows by the payment
\* and its Balance is recomputed.
update_payment(selected_name, new_payment) ==
    LET index == FirstIndex(selected_name) IN
    /\ hostel_data' =
          [hostel_data EXCEPT
              ![index].Paid = @ + new_payment,
              ![index].Balance = hostel_data[index].Paid + new_payment
                                    - hostel_data[index].TotalDue]
    /\ out' = Success

\* The names the selectbox offers.
UniqueNames == {hostel_data[i].Name : i \in DOMAIN hostel_data}

AddHosteliteRow ==
    /\ Len(hostel_data) < MaxHostelRows
    /\ \E date \in Dates, name \in Names, laundry \in LaundryFees,
          internet \in InternetFees, mess \in MessFees, other \in OtherFees,
          paid \in PaidInputs :
           add_hostelite_row(date, name, laundry, internet, mess, other, "", paid)
    /\ UNCHANGED <<revenue, expenses, balance_sheet, hostelites, staff, staff_payments,
                   transactions, expense_categories, ret, arg>>

\* With an empty table the selectbox has no option and .index[0] raises.
UpdatePayment ==
    /\ IF hostel_data = <<>>
       THEN /\ out' = IndexError
            /\ UNCHANGED hostel_data
       ELSE \E selected_name \in UniqueNames, new_payment \in PaymentInputs :
               /\ hostel_data[FirstIndex(selected_name)].Paid + new_payment <= MaxHostelPaid
               /\ update_payment(selected_name, new_payment)
    /\ UNCHANGED <<revenue, expenses, balance_sheet, hostelites, staff, staff_payments,
                   transactions, expense_categories, ret, arg>>

NextHostelTable == AddHosteliteRow \/ UpdatePayment

SpecHostelTable == Init /\ [][NextHostelTable]_vars

RowConsistent(row) ==
    /\ row.TotalDue = row.Laundry + row.Internet + row.Mess + row.OtherExpenses
    /\ row.Balance = row.Paid - row.TotalDue

\* The first row of the name, counted without FirstIndex.
IsFirstRowOf(i, name) ==
    /\ i \in DOMAIN hostel_data
    /\ hostel_data[i].Name = name
    /\ ~ \E j \in DOMAIN hostel_data : j < i /\ hostel_data[j].Name = name

\* C27: after any sequence of Add Hostelite and Update Payment every row
\* has Total Due == Laundry + Internet + Mess + Other Expenses and
\* Balance == Paid - Total Due, and Update Payment for a name changes Paid
\* and Balance of the first row with that name and nothing else.
C27_RowsConsistent ==
    [][/\ \A i \in DOMAIN hostel_data' : RowConsistent(hostel_data'[i])
       /\ \A selected_name \in UniqueNames, new_payment \in PaymentInputs :
             update_payment(selected_name, new_payment)
                => /\ DOMAIN hostel_data' = DOMAIN hostel_data
                   /\ \A i \in DOMAIN hostel_data :
                         IF IsFirstRowOf(i, selected_name)
                         THEN /\ hostel_data'[i].Paid = hostel_data[i].Paid + new_payment
                              /\ [hostel_data'[i] EXCEPT !.Paid = hostel_data[i].Paid,
                                                         !.Balance = hostel_data[i].Balance]
                                    = hostel_data[i]
                         ELSE hostel_data'[i] = hostel_data[i]]_vars

C27_Witness ==
    /\ Len(hostel_data) = 2
    /\ hostel_data[1].Name = "A"
    /\ hostel_data[2].Name = "A"
    /\ hostel_data[1].Paid = 2
    /\ hostel_data[2].Paid = 0
    /\ hostel_data[1].TotalDue = 5
    /\ hostel_data[1].Balance = 0 - 3
    /\ out = Success

---------------------------------------------------------------------------
(* The transactions of src/2.py.                                           *)

TransactionTypes == {"Income", "Expense"}

\* add_transaction adding the amount to the running total whatever the type.
add_transaction_any_type(type, amount, description, date, category, client) ==
    /\ transactions' = Append(transactions,
                              [Type |-> type, Amount |-> amount,
                               Description |-> description, Date |-> date,
                               Category |-> category, Client |-> client])
    /\ expense_categories' = [expense_categories EXCEPT ![category] = @ + amount]

\* add_transaction: the transaction is appended, and an Expense is added to
\* the running total of its category.
add_transaction(type, amount, description, date, category, client) ==
    /\ transactions' = Append(transactions,
                              [Type |-> type, Amount |-> amount,
                               Description |-> description, Date |-> date,
                               Category |-> category, Client |-> client])
    /\ IF type = "Expense"
       THEN expense_categories' = [expense_categories EXCEPT ![category] = @ + amount]
       ELSE UNCHANGED expense_categories

AddTransaction ==
    /\ Len(transactions) < MaxTransactions
    /\ \E type \in TransactionTypes, amount \in 0 .. MaxTransactionAmount,
          date \in Dates, category \in TransactionCategories :
           add_transaction(type, amount, "", date, category, "None")
    /\ UNCHANGED <<revenue, expenses, balance_sheet, hostelites, staff, staff_payments,
                   hostel_data, ret, arg, out>>

SpecTransactions == Init /\ [][AddTransaction]_vars

\* The amounts of the stored Expense transactions of one category.
ExpenseAmountsOf(stored, category) ==
    AmountsOf(SelectSeq(stored,
                        LAMBDA t : t.Type = "Expense" /\ t.Category = category))

\* C28: after any sequence of add_transaction calls every running total
\* expense_categories[c] is the sum of the amounts of the stored Expense
\* transactions of category c, and an Income transaction leaves every
\* running total unchanged.
C28_RunningTotals ==
    [][/\ \A category \in TransactionCategories :
             expense_categories'[category]
                = SumSeq(ExpenseAmountsOf(transactions', category))
       /\ (Len(transactions') = Len(transactions) + 1
              /\ transactions'[Len(transactions')].Type = "Income")
             => expense_categories' = expense_categories]_vars

C28_Witness ==
    /\ Len(transactions) = 2
    /\ transactions[1].Type = "Expense"
    /\ transactions[1].Category = "Tools"
    /\ transactions[1].Amount = 1
    /\ transactions[2].Type = "Income"
    /\ transactions[2].Category = "Tools"
    /\ transactions[2].Amount = 1
    /\ expense_categories["Tools"] = 1

---------------------------------------------------------------------------
(* The expense table of src/6.py, held in st.session_state.expenses.       *)

HosteliteInputs == {"", "A", "B"}
TableCategories == {"Mess", "Laundry"}
ErrorMessage == [type |-> "error"]

\* Add Expense accepting an amount of 0.
add_expense_row_nonnegative(date, hostelite, category, description, amount) ==
    IF hostelite # "" /\ amount >= 0
    THEN /\ expenses' = Append(expenses,
                               [Date |-> date, Hostelite |-> hostelite,
                                Category |-> category, Description |-> description,
                                Amount |-> amount])
         /\ out' = Success
    ELSE /\ out' = ErrorMessage
         /\ UNCHANGED expenses

\* Add Expense: the row is appended if the name is non-empty and the amount
\* is positive; otherwise an error is shown.
add_expense_row(date, hostelite, category, description, amount) ==
    IF hostelite # "" /\ amount > 0
    THEN /\ expenses' = Append(expenses,
                               [Date |-> date, Hostelite |-> hostelite,
                                Category |-> category, Description |-> description,
                                Amount |-> amount])
         /\ out' = Success
    ELSE /\ out' = ErrorMessage
         /\ UNCHANGED expenses

AddExpenseRow ==
    /\ \E date \in Dates, hostelite \in HosteliteInputs, category \in TableCategories,
          amount \in 0 .. MaxRowAmount :
           /\ add_expense_row(date, hostelite, category, "", amount)
           /\ Len(expenses') <= MaxTableRows
    /\ UNCHANGED <<revenue, balance_sheet, hostelites, staff, staff_payments,
                   hostel_data, transactions, expense_categories, ret, arg>>

SpecExpenseTable == Init /\ [][AddExpenseRow]_vars

\* C29: Add Expense with an empty hostelite name or an amount that is not
\* strictly positive is rejected with an error and leaves the table
\* unchanged, so every stored row has a non-empty hostelite and amount > 0.
C29_InvalidExpenseRejected ==
    [][/\ \A k \in DOMAIN expenses' :
             expenses'[k].Hostelite # "" /\ expenses'[k].Amount > 0
       /\ \A date \in Dates, hostelite \in HosteliteInputs, category \in TableCategories,
             amount \in 0 .. MaxRowAmount :
             (add_expense_row(date, hostelite, category, "", amount)
                 /\ (hostelite = "" \/ amount <= 0))
                => (expenses' = expenses /\ out' = ErrorMessage)]_vars

C29_Witness ==
    /\ Len(expenses) = 2
    /\ expenses[1].Hostelite = "A"
    /\ expenses[2].Hostelite = "B"
    /\ expenses[2].Amount = 1
    /\ out = ErrorMessage

=============================================================================
